---- MODULE Spec2Model ----
(***************************************************************************)
(* A model of the HSDS validator core (src/lib/validate.py) and of the     *)
(* report its callers build (src/api/main.py, src/cli/main.py).            *)
(*                                                                         *)
(* Python strings are sequences of one-character strings, so that          *)
(* basename, splitext, lower, replace, Path.name and Path.stem are         *)
(* computed and not assumed.  JSON values are tagged records: a dict is    *)
(* the sequence kv of its <<key, value>> pairs in insertion order, a list  *)
(* the sequence xs of its items, a string the sequence s of its            *)
(* characters.                                                             *)
(***************************************************************************)
EXTENDS Integers, Sequences, FiniteSets, TLC

VARIABLES
    pc,             \* position of the call being modelled
    HSDS_MODELS,    \* registry of model names, in dict order
    json_schemas,   \* the batch's schema documents, in order
    filename,       \* the batch-level filename hint
    json_data_list, \* the batch's (filename, document) pairs, in order
    picked,         \* what pick_model_to_validate returned
    main_schema,    \* result of main-schema selection
    resolved,       \* outcome of resolve_external_refs
    cleaned_schema, \* outcome of clean_hsds_schema
    pydantic_model, \* the compiled model
    results,        \* bulk_validate's list of outcomes
    raised,         \* the exception that ended the call, or NoError
    fs,             \* what the call has left on the file system
    report,         \* the response built by the caller
    caller,         \* who calls bulk_validate: the API endpoint or the CLI
    input_dir,      \* the caller's input archive or directory
    schema_dir      \* the caller's schema archive or directory

vars == <<pc, HSDS_MODELS, json_schemas, filename, json_data_list, picked,
          main_schema, resolved, cleaned_schema, pydantic_model, results, raised, fs, report,
          caller, input_dir, schema_dir>>

\* The variables of the caller's file loading
caller_vars == <<caller, input_dir, schema_dir>>

----------------------------------------------------------------------------
(* Bounds of the model *)

MaxSchemas == 2

MaxDocs == 3

MaxNesting == 3

----------------------------------------------------------------------------
(* Python strings *)

UpperAlpha == <<"A","B","C","D","E","F","G","H","I","J","K","L","M",
                "N","O","P","Q","R","S","T","U","V","W","X","Y","Z">>

LowerAlpha == <<"a","b","c","d","e","f","g","h","i","j","k","l","m",
                "n","o","p","q","r","s","t","u","v","w","x","y","z">>

LowerChar(c) ==
    IF \E i \in 1..26 : UpperAlpha[i] = c
    THEN LowerAlpha[CHOOSE i \in 1..26 : UpperAlpha[i] = c]
    ELSE c

\* str.lower()
Lower(s) == [i \in 1..Len(s) |-> LowerChar(s[i])]

\* str.replace(c, "")
RemoveChar(s, c) == SelectSeq(s, LAMBDA x : x # c)

\* str.rfind(c), 1-based; 0 when c does not occur
RFind(s, c) ==
    IF \E i \in 1..Len(s) : s[i] = c
    THEN CHOOSE i \in 1..Len(s) : s[i] = c /\ \A j \in (i+1)..Len(s) : s[j] # c
    ELSE 0

\* str.startswith(p)
StartsWith(s, p) == Len(s) >= Len(p) /\ SubSeq(s, 1, Len(p)) = p

\* os.path.basename
Basename(p) == SubSeq(p, RFind(p, "/") + 1, Len(p))

\* os.path.splitext: <<root, ext>>; leading dots of the last component are
\* not an extension
Splitext(p) ==
    LET sep == RFind(p, "/")
        dot == RFind(p, ".")
    IN  IF dot > sep /\ \E k \in (sep+1)..(dot-1) : p[k] # "."
        THEN <<SubSeq(p, 1, dot - 1), SubSeq(p, dot, Len(p))>>
        ELSE <<p, <<>> >>

\* pathlib drops empty and "." components; what is left of the path's tail
RECURSIVE StripTrail(_)
StripTrail(p) ==
    IF p = <<>> THEN <<>>
    ELSE IF p[Len(p)] = "/" THEN StripTrail(SubSeq(p, 1, Len(p) - 1))
    ELSE IF p[Len(p)] = "." /\ (Len(p) = 1 \/ p[Len(p) - 1] = "/")
         THEN StripTrail(SubSeq(p, 1, Len(p) - 1))
    ELSE p

\* Path(p).name
PathName(p) == Basename(StripTrail(p))

\* Path(p).stem
PathStem(p) ==
    LET name == PathName(p)
        dot  == RFind(name, ".")
    IN  IF 1 < dot /\ dot < Len(name) THEN SubSeq(name, 1, dot - 1) ELSE name

DotJson == <<".","j","s","o","n">>

----------------------------------------------------------------------------
(* JSON values *)

Str(s)    == [t |-> "str",  s |-> s]
Dict(kvs) == [t |-> "dict", kv |-> kvs]
List(xs)  == [t |-> "list", xs |-> xs]
PyTrue    == [t |-> "bool", b |-> TRUE]
None      == [t |-> "none"]

IsDict(x) == x.t = "dict"
IsList(x) == x.t = "list"
IsStr(x)  == x.t = "str"

Keys(d) == {d.kv[i][1] : i \in 1..Len(d.kv)}

\* k in d
HasKey(d, k) == k \in Keys(d)

\* d[k]
Get(d, k) == d.kv[CHOOSE i \in 1..Len(d.kv) : d.kv[i][1] = k][2]

\* str(x) as an f-string renders it
PyStr(x) ==
    IF IsStr(x) THEN x.s
    ELSE IF x = None THEN <<"N","o","n","e">>
    ELSE <<"?">>

\* truthiness of a value: None and the empty string, dict and list are falsy
Truthy(x) == x \notin {None, Str(<<>>), Dict(<<>>), List(<<>>)}

----------------------------------------------------------------------------
(* Exceptions: kind is the Python class, what the fixed part of the message, *)
(* arg the value the message quotes, names the list the message prints       *)

NoError == [kind |-> "none", what |-> "", arg |-> <<>>, names |-> <<>>]

Error(kind, what, arg, names) ==
    [kind |-> kind, what |-> what, arg |-> arg, names |-> names]

----------------------------------------------------------------------------
(* get_schema_identifier: schema.get('name') *)

get_schema_identifier(schema) ==
    IF HasKey(schema, "name") THEN Get(schema, "name") ELSE None

----------------------------------------------------------------------------
(* find_all_refs: the set of every "$ref" value, at any depth *)

\* Mutant: lists are not searched
RECURSIVE extract_refs_SkipLists(_)
extract_refs_SkipLists(item) ==
    IF IsDict(item)
    THEN (IF HasKey(item, "$ref") THEN {Get(item, "$ref")} ELSE {})
         \cup UNION {extract_refs_SkipLists(item.kv[i][2]) : i \in 1..Len(item.kv)}
    ELSE {}

RECURSIVE extract_refs(_)
extract_refs(item) ==
    IF IsDict(item)
    THEN (IF HasKey(item, "$ref") THEN {Get(item, "$ref")} ELSE {})
         \cup UNION {extract_refs(item.kv[i][2]) : i \in 1..Len(item.kv)}
    ELSE IF IsList(item)
    THEN UNION {extract_refs(item.xs[i]) : i \in 1..Len(item.xs)}
    ELSE {}

find_all_refs(obj) == extract_refs(obj)

----------------------------------------------------------------------------
(* resolve_external_refs *)

\* The keys schema i is stored under: its identifier and identifier + ".json"
LookupKeysOf(schema) ==
    {get_schema_identifier(schema),
     Str(PyStr(get_schema_identifier(schema)) \o DotJson)}

\* schema_lookup, as key -> index into all_schemas; a later schema overwrites
\* the entry of an earlier one stored under the same key
schema_lookup(all_schemas) ==
    LET keys == UNION {LookupKeysOf(all_schemas[i]) : i \in 1..Len(all_schemas)}
    IN  [k \in keys |->
            CHOOSE i \in 1..Len(all_schemas) :
                /\ k \in LookupKeysOf(all_schemas[i])
                /\ \A j \in (i+1)..Len(all_schemas) :
                       k \notin LookupKeysOf(all_schemas[j])]

\* schemas_with_extension
schemas_with_extension(all_schemas) ==
    [i \in 1..Len(all_schemas) |->
        PyStr(get_schema_identifier(all_schemas[i])) \o DotJson]

\* Mutant: the stem is tried before the basename
LookupOrder_StemFirst(ref_path) ==
    <<ref_path, PathStem(ref_path), PathName(ref_path)>>

\* The lookup strategies, in the order they are tried
LookupOrder(ref_path) == <<ref_path, PathName(ref_path), PathStem(ref_path)>>

\* Index of the referenced schema, 0 for ref_schema = None
FindRefSchema(lookup, ref_path) ==
    LET order == LookupOrder(ref_path)
        hits  == {n \in 1..Len(order) : Str(order[n]) \in DOMAIN lookup}
    IN  IF hits = {} THEN 0
        ELSE lookup[Str(order[CHOOSE n \in hits : \A m \in hits : n <= m])]

\* Mutant: no reference is ever taken for circular
IsCircular_Never(ref_path, visited_refs) == FALSE

\* The check for a circular reference
IsCircular(ref_path, visited_refs) == ref_path \in visited_refs

\* Mutant: the reference stays in visited_refs after the recursion
AfterRecursion_Kept(visited_refs, ref_path) == visited_refs

\* visited_refs after the recursion on ref_path has returned
AfterRecursion(visited_refs, ref_path) == visited_refs \ {ref_path}

CircularPrefix == <<"C","i","r","c","u","l","a","r"," ","r","e","f","e","r","e","n","c","e",":"," ">>

Placeholder(ref_path) ==
    Dict(<< <<"type", Str(<<"o","b","j","e","c","t">>)>>,
            <<"additionalProperties", PyTrue>>,
            <<"description", Str(CircularPrefix \o ref_path)>> >>)

\* The outcome of a call of resolve_refs: st is "ok" (returned val), "raise"
\* (raised err) or "depth" (more than MaxNesting "$ref" calls were nested:
\* the walk of a finite tree ends, only the calls on referenced schemas can
\* go on for ever); visited is
\* the shared visited_refs set as the call leaves it; log is the history of
\* the external "$ref" nodes the call decided, in order
Returned(val, visited, log) ==
    [st |-> "ok", val |-> val, visited |-> visited, err |-> NoError, log |-> log]

Raised(err, visited, log) ==
    [st |-> "raise", val |-> None, visited |-> visited, err |-> err, log |-> log]

TooDeep(visited, log) ==
    [st |-> "depth", val |-> None, visited |-> visited, err |-> NoError, log |-> log]

\* One history entry: the reference, the enclosing "$ref" calls still
\* running (each <<ref_path, index of its schema>>), what was done
\* ("placeholder", "unresolved", "inlined" or, for a fragment reference
\* returned as it is, "verbatim") and the schema it led to
Event(ref_path, path, did, target) ==
    [ref |-> ref_path, path |-> path, did |-> did, target |-> target]

RECURSIVE resolve_refs(_, _, _, _, _)
RECURSIVE resolve_items(_, _, _, _, _, _)

\* ctx holds what the closure captures: all_schemas, schema_lookup and
\* schemas_with_extension.  path is history only.
resolve_refs(obj, visited_refs, path, ctx, depth) ==
    IF IsDict(obj) THEN
        IF HasKey(obj, "$ref") THEN
            LET ref == Get(obj, "$ref") IN
            IF ~IsStr(ref)
            THEN Raised(Error("AttributeError", "startswith", <<>>, <<>>),
                        visited_refs, <<>>)
            ELSE
            LET ref_path == ref.s
                target   == FindRefSchema(ctx.lookup, ref_path)
            IN
            IF StartsWith(ref_path, <<"#">>)
            THEN \* return obj: the node itself, not a copy of it
                 Returned(obj, visited_refs,
                          <<Event(ref_path, path, "verbatim", 0)>>)
            ELSE IF IsCircular(ref_path, visited_refs)
            THEN Returned(Placeholder(ref_path), visited_refs,
                          <<Event(ref_path, path, "placeholder", target)>>)
            ELSE IF target = 0
            THEN Raised(Error("ValueError", "Could not resolve reference",
                              ref_path, ctx.available),
                        visited_refs,
                        <<Event(ref_path, path, "unresolved", 0)>>)
            ELSE IF depth = 0
            THEN TooDeep(visited_refs, <<>>)
            ELSE
            LET r == resolve_refs(ctx.all[target],
                                  visited_refs \cup {ref_path},
                                  Append(path, <<ref_path, target>>),
                                  ctx, depth - 1)
                ev == <<Event(ref_path, path, "inlined", target)>>
            IN  IF r.st = "ok"
                THEN Returned(r.val, AfterRecursion(r.visited, ref_path),
                              ev \o r.log)
                ELSE [r EXCEPT !.log = ev \o r.log]
        ELSE
            LET r == resolve_items(obj.kv, TRUE, visited_refs, path, ctx, depth)
            IN  IF r.st = "ok" THEN [r EXCEPT !.val = Dict(r.val)] ELSE r
    ELSE IF IsList(obj) THEN
        LET r == resolve_items(obj.xs, FALSE, visited_refs, path, ctx, depth)
        IN  IF r.st = "ok" THEN [r EXCEPT !.val = List(r.val)] ELSE r
    ELSE Returned(obj, visited_refs, <<>>)

\* The comprehension over a dict's items or a list's elements, left to right;
\* the first exception ends it
resolve_items(items, is_dict, visited_refs, path, ctx, depth) ==
    IF items = <<>> THEN Returned(<<>>, visited_refs, <<>>)
    ELSE
    LET head == items[1]
        r    == resolve_refs(IF is_dict THEN head[2] ELSE head,
                             visited_refs, path, ctx, depth)
    IN  IF r.st # "ok" THEN r
        ELSE
        LET rest == resolve_items(Tail(items), is_dict, r.visited, path, ctx, depth)
        IN  IF rest.st # "ok" THEN [rest EXCEPT !.log = r.log \o rest.log]
            ELSE Returned(<<IF is_dict THEN <<head[1], r.val>> ELSE r.val>> \o rest.val,
                          rest.visited, r.log \o rest.log)

resolve_external_refs(main, all_schemas) ==
    resolve_refs(main, {}, <<>>,
                 [all       |-> all_schemas,
                  lookup    |-> schema_lookup(all_schemas),
                  available |-> schemas_with_extension(all_schemas)],
                 MaxNesting)

----------------------------------------------------------------------------
(* pick_model_to_validate.  HSDS_MODELS is the registry's canonical names  *)
(* in dict order; the model class of a name is Str(name).  The result is   *)
(* the pair the function returns: (model, canonical) or (None, message).   *)

\* The normalization of the file name and of each canonical name
Normalize(name) == RemoveChar(Lower(name), "_")

Matches(registry, norm_name) ==
    SelectSeq(registry, LAMBDA canonical : Normalize(canonical) = norm_name)

pick_model_to_validate(fname, registry) ==
    LET base      == Basename(fname)
        file_name == Splitext(base)[1]
        norm_name == Normalize(file_name)
        matches   == Matches(registry, norm_name)
    IN  IF matches = <<>>
        THEN [model |-> None,
              second |-> Error("message", "No HSDS model name found in filename",
                               base, <<>>),
              matches |-> matches]
        ELSE IF Len(matches) > 1
        THEN [model |-> None,
              second |-> Error("message", "Ambiguous HSDS model in filename",
                               base, matches),
              matches |-> matches]
        ELSE [model |-> Str(matches[1]), second |-> Str(matches[1]),
              matches |-> matches]

----------------------------------------------------------------------------
(* detect_main_schema_by_filename, after pick_model_to_validate returned p: *)
(* [st, schema, err]                                                        *)

Selected(schema) == [st |-> "ok", schema |-> schema, err |-> NoError]
SelectFailed(err) == [st |-> "raise", schema |-> None, err |-> err]

\* Mutant: the names are compared as written
SameName_CaseSensitive(schema_name, model_name) == schema_name = model_name

\* schema_name.lower() == model_name.lower()
SameName(schema_name, model_name) == Lower(schema_name) = Lower(model_name)

\* The names the error message lists
AvailableSchemas(schemas) ==
    LET ids == [i \in 1..Len(schemas) |-> get_schema_identifier(schemas[i])]
        kept == SelectSeq(ids, LAMBDA id : Truthy(id))
    IN  [i \in 1..Len(kept) |-> PyStr(kept[i])]

\* The loop over the schemas, from index i on
RECURSIVE FindSchema(_, _, _)
FindSchema(schemas, model_name, i) ==
    IF i > Len(schemas)
    THEN SelectFailed(Error("ValueError", "Could not find schema matching model",
                            model_name, AvailableSchemas(schemas)))
    ELSE LET schema_name == get_schema_identifier(schemas[i]) IN
         IF ~Truthy(schema_name) THEN FindSchema(schemas, model_name, i + 1)
         ELSE IF ~IsStr(schema_name)
         THEN SelectFailed(Error("AttributeError", "lower", <<>>, <<>>))
         ELSE IF SameName(schema_name.s, model_name) THEN Selected(schemas[i])
         ELSE FindSchema(schemas, model_name, i + 1)

\* The checks before pick_model_to_validate is called
DetectPrecheck(schemas, fname) ==
    IF schemas = <<>>
    THEN Error("ValueError", "No schemas provided", <<>>, <<>>)
    ELSE IF fname = <<>>
    THEN Error("ValueError", "Filename is required for schema selection", <<>>, <<>>)
    ELSE NoError

\* Mutant: without a model the first schema is taken
DetectAfterPick_FirstSchema(schemas, fname, p) ==
    IF p.model = None
    THEN Selected(schemas[1])
    ELSE FindSchema(schemas, p.second.s, 1)

\* What follows the call of pick_model_to_validate
DetectAfterPick(schemas, fname, p) ==
    IF p.model = None
    THEN SelectFailed(Error("ValueError", "No matching model found for filename",
                            fname, <<>>))
    ELSE FindSchema(schemas, p.second.s, 1)

----------------------------------------------------------------------------
(* Main-schema selection by the reference graph.  The selector is the      *)
(* caller of find_all_refs; the edges it follows are those of the catalog  *)
(* lookup of resolve_external_refs: [st, schema, err]                      *)

\* The identifiers schema refers to through its external "$ref" values
referenced_identifiers(schema, all_schemas) ==
    LET lookup  == schema_lookup(all_schemas)
        targets == {FindRefSchema(lookup, x.s) :
                       x \in {y \in find_all_refs(schema) :
                                 IsStr(y) /\ ~StartsWith(y.s, <<"#">>)}}
    IN  {get_schema_identifier(all_schemas[t]) : t \in targets \ {0}}

\* The indices from i on whose schema no other schema refers to
RECURSIVE candidate_schemas(_, _)
candidate_schemas(schemas, i) ==
    IF i > Len(schemas) THEN <<>>
    ELSE LET referenced ==
                 UNION {referenced_identifiers(schemas[j], schemas) :
                           j \in (1..Len(schemas)) \ {i}}
         IN  (IF get_schema_identifier(schemas[i]) \in referenced
              THEN <<>> ELSE <<i>>)
             \o candidate_schemas(schemas, i + 1)

detect_main_schema(schemas) ==
    LET candidates == candidate_schemas(schemas, 1) IN
    IF candidates = <<>>
    THEN SelectFailed(Error("NoMainSchema", "No main schema found", <<>>, <<>>))
    ELSE IF Len(candidates) > 1
    THEN SelectFailed(Error("AmbiguousMainSchema", "Multiple main schemas found", <<>>,
                            [k \in 1..Len(candidates) |->
                                PyStr(get_schema_identifier(schemas[candidates[k]]))]))
    ELSE Selected(schemas[candidates[1]])

----------------------------------------------------------------------------
(* clean_hsds_schema *)

hsds_metadata_fields == {"name", "title", "constraints", "example", "core", "order"}

root_hsds_fields == {"path", "datapackage_metadata", "tabular_required"}

\* Mutant: the metadata keys are removed from every dict held by a dict,
\* the properties map included
RECURSIVE clean_properties_EveryDict(_, _)
clean_properties_EveryDict(obj, is_root) ==
    IF IsDict(obj) THEN
        LET kept == IF is_root
                    THEN SelectSeq(obj.kv, LAMBDA e : e[1] \notin root_hsds_fields)
                    ELSE obj.kv
        IN  Dict([i \in 1..Len(kept) |->
                LET k == kept[i][1]
                    v == kept[i][2]
                IN  IF IsDict(v)
                    THEN <<k, clean_properties_EveryDict(
                                 Dict(SelectSeq(v.kv,
                                        LAMBDA e : e[1] \notin hsds_metadata_fields)),
                                 FALSE)>>
                    ELSE <<k, clean_properties_EveryDict(v, FALSE)>>])
    ELSE IF IsList(obj) THEN
        List([i \in 1..Len(obj.xs) |-> clean_properties_EveryDict(obj.xs[i], FALSE)])
    ELSE obj

RECURSIVE clean_properties(_, _)
clean_properties(obj, is_root) ==
    IF IsDict(obj) THEN
        LET kept == IF is_root
                    THEN SelectSeq(obj.kv, LAMBDA e : e[1] \notin root_hsds_fields)
                    ELSE obj.kv
        IN  Dict([i \in 1..Len(kept) |->
                LET k == kept[i][1]
                    v == kept[i][2]
                IN  IF IsDict(v) /\ HasKey(v, "type")
                    THEN <<k, clean_properties(
                                 Dict(SelectSeq(v.kv,
                                        LAMBDA e : e[1] \notin hsds_metadata_fields)),
                                 FALSE)>>
                    ELSE <<k, clean_properties(v, FALSE)>>])
    ELSE IF IsList(obj) THEN
        List([i \in 1..Len(obj.xs) |-> clean_properties(obj.xs[i], FALSE)])
    ELSE obj

clean_hsds_schema(schema) == clean_properties(schema, TRUE)

----------------------------------------------------------------------------
(* validate.  What model.model_validate does with a document is the        *)
(* compiled model's: a verdict [kind |-> "valid"], [kind |->               *)
(* "ValidationError", errors |-> e.errors()] or [kind |-> "Exception", msg  *)
(* |-> str(e)].  A location item is a key Str(s) or an index [t |-> "int",  *)
(* n |-> i].                                                                *)

Index(n) == [t |-> "int", n |-> n]

Digits == <<"0","1","2","3","4","5","6","7","8","9">>

\* str(n) for n >= 0
RECURSIVE IntStr(_)
IntStr(n) ==
    IF n < 10 THEN <<Digits[n + 1]>>
    ELSE IntStr(n \div 10) \o <<Digits[(n % 10) + 1]>>

\* str(x) of a location item
LocStr(x) == IF x.t = "int" THEN IntStr(x.n) ELSE x.s

\* Mutant: the parts are put together without the separator
RECURSIVE Join_NoSeparator(_, _)
Join_NoSeparator(sep, parts) ==
    IF parts = <<>> THEN <<>>
    ELSE parts[1] \o Join_NoSeparator(sep, Tail(parts))

\* sep.join(parts)
RECURSIVE Join(_, _)
Join(sep, parts) ==
    IF parts = <<>> THEN <<>>
    ELSE IF Len(parts) = 1 THEN parts[1]
    ELSE parts[1] \o sep \o Join(sep, Tail(parts))

\* One entry of err_message
ErrorEntry(error) ==
    [column |-> Join(<<".">>, [i \in 1..Len(error.loc) |-> LocStr(error.loc[i])]),
     error  |-> error.msg]

\* Mutant: an exception other than ValidationError is not caught as a failure
validate_CrashPasses(json_data, fname, model) ==
    LET verdict == model.model_validate[json_data] IN
    IF verdict.kind = "ValidationError"
    THEN [filename |-> fname, success |-> FALSE,
          errors |-> [i \in 1..Len(verdict.errors) |-> ErrorEntry(verdict.errors[i])]]
    ELSE [filename |-> fname, success |-> TRUE]

validate(json_data, fname, model) ==
    LET verdict == model.model_validate[json_data] IN
    IF verdict.kind = "valid"
    THEN [filename |-> fname, success |-> TRUE]
    ELSE IF verdict.kind = "ValidationError"
    THEN [filename |-> fname, success |-> FALSE,
          errors |-> [i \in 1..Len(verdict.errors) |-> ErrorEntry(verdict.errors[i])]]
    ELSE [filename |-> fname, success |-> FALSE,
          errors |-> << [error |-> verdict.msg] >>]

\* Mutant: the list of error entries is kept from one call of validate to
\* the next
AppendOutcome_SharedErrors(outcomes, outcome) ==
    IF outcomes # <<>> /\ ~outcome.success /\ ~outcomes[Len(outcomes)].success
    THEN Append(outcomes,
                [outcome EXCEPT !.errors = outcomes[Len(outcomes)].errors \o @])
    ELSE Append(outcomes, outcome)

\* Mutant: the outcome is put in front of the earlier ones
AppendOutcome_Prepend(outcomes, outcome) == <<outcome>> \o outcomes

\* results.append(...) in the loop of bulk_validate
AppendOutcome(outcomes, outcome) == Append(outcomes, outcome)

----------------------------------------------------------------------------
(* generate_models.  create_model_from_schema and the datamodel-codegen     *)
(* subprocess are the environment's: each either fails or succeeds, and    *)
(* the model class that comes back is a schema with a model_validate.       *)

ModelGenerationFailed(e) == Error("Exception", "Model generation failed", e, <<>>)

\* The model class built from the cleaned schema
ModelClass(schema, behaviour) ==
    [schema |-> schema, model_validate |-> behaviour]

\* The file system once the temporary schema file is written
TempFileWritten(files) ==
    [files EXCEPT !.models_dir = TRUE, !.temp = @ + 1]

\* The file system once datamodel-codegen has written the model file and the
\* temporary file is unlinked
CodegenDone(files, schema) ==
    [files EXCEPT !.temp = @ - 1,
                  !.outputs = @ \cup {PyStr(get_schema_identifier(schema)) \o <<".","p","y">>}]

----------------------------------------------------------------------------
(* The report the API endpoint builds from the outcomes of bulk_validate,   *)
(* and the one it returns when bulk_validate raised                         *)

\* result.get("errors", [])
ErrorsOf(result) == IF "errors" \in DOMAIN result THEN result.errors ELSE <<>>

\* Mutant: the batch succeeds as soon as one file passed
BuildReport_AnyPassed(outcomes) ==
    LET passed == SelectSeq(outcomes, LAMBDA r : r.success)
        failed == SelectSeq(outcomes, LAMBDA r : ~r.success)
    IN  [kind |-> "summary",
         success |-> Len(passed) > 0,
         summary |-> [total_files |-> Len(outcomes),
                      successful |-> Len(passed),
                      failed |-> Len(failed)],
         successful_files |-> [i \in 1..Len(passed) |-> passed[i].filename],
         failed_files |-> [i \in 1..Len(failed) |-> failed[i].filename],
         errors |-> [i \in 1..Len(failed) |->
                        [filename |-> failed[i].filename,
                         errors |-> ErrorsOf(failed[i])]]]

BuildReport(outcomes) ==
    LET passed == SelectSeq(outcomes, LAMBDA r : r.success)
        failed == SelectSeq(outcomes, LAMBDA r : ~r.success)
        successful_files == [i \in 1..Len(passed) |-> passed[i].filename]
        failed_files     == [i \in 1..Len(failed) |-> failed[i].filename]
        all_errors       == [i \in 1..Len(failed) |->
                                [filename |-> failed[i].filename,
                                 errors |-> ErrorsOf(failed[i])]]
    IN  [kind |-> "summary",
         success |-> Len(failed_files) = 0,
         summary |-> [total_files |-> Len(outcomes),
                      successful |-> Len(successful_files),
                      failed |-> Len(failed_files)],
         successful_files |-> successful_files,
         failed_files |-> failed_files,
         errors |-> all_errors]

\* The report of the CLI: the loop over the outcomes, from index i on, with
\* the three lists built so far
RECURSIVE CliCollect(_, _, _, _, _)
CliCollect(outcomes, i, successful_files, failed_files, all_errors) ==
    IF i > Len(outcomes)
    THEN [kind |-> "summary",
          success |-> Len(failed_files) = 0,
          summary |-> [total_files |-> Len(outcomes),
                       successful |-> Len(successful_files),
                       failed |-> Len(failed_files)],
          successful_files |-> successful_files,
          failed_files |-> failed_files,
          errors |-> all_errors]
    ELSE LET result == outcomes[i] IN
         IF result.success
         THEN CliCollect(outcomes, i + 1, Append(successful_files, result.filename),
                         failed_files, all_errors)
         ELSE CliCollect(outcomes, i + 1, successful_files,
                         Append(failed_files, result.filename),
                         Append(all_errors, [filename |-> result.filename,
                                             errors |-> ErrorsOf(result)]))

CliBuildReport(outcomes) == CliCollect(outcomes, 1, <<>>, <<>>, <<>>)

\* Mutant: the handler catches ValueError only
Caught_ValueErrorOnly(e) == e.kind = "ValueError"

\* except Exception as e: the exceptions the handlers of the API endpoint and
\* of the CLI catch, the subclasses of Exception
Caught(e) == e.kind \in {"Exception", "ValueError", "AttributeError"}

\* The CLI's {"success": False, "errors": [{"error": "Validation failed: " + str(e)}]}
CliFailureReport(e) ==
    [kind |-> "failure", success |-> FALSE,
     errors |-> << [error |-> [prefix |-> "Validation failed", message |-> e]] >>]

\* {"success": False, "errors": ["validation: UNKNOWN_ERROR - " + str(e)]}
FailureReport(e) ==
    [kind |-> "failure", success |-> FALSE,
     errors |-> << [filepath |-> "validation", error_type |-> "UNKNOWN_ERROR",
                    message |-> e] >>]

----------------------------------------------------------------------------
(* The schema documents the batches are drawn from *)

RefNode(ref_path) == Dict(<< <<"$ref", Str(ref_path)>> >>)

StringProperty == Dict(<< <<"type", Str(<<"s","t","r","i","n","g">>)>> >>)

\* What a schema holds under "items"
Children ==
    { StringProperty,
      RefNode(<<"B">>),
      RefNode(<<"A",".","j","s","o","n">>),
      \* a fragment reference with a sibling key
      Dict(<< <<"$ref", Str(<<"#","/","d">>)>>,
              <<"x", RefNode(<<"B",".","j","s","o","n">>)>> >>),
      \* a list of references
      List(<< RefNode(<<"A">>), RefNode(<<"B">>) >>),
      \* the same document referenced from two sibling places
      Dict(<< <<"a", RefNode(<<"B">>)>>, <<"b", RefNode(<<"B">>)>> >>) }

ArrayType == <<"type", Str(<<"a","r","r","a","y">>)>>

\* {"name": name, "type": "array", "items": child}; no "name" key for None
Schema(name, child) ==
    Dict((IF name = None THEN <<>> ELSE << <<"name", name>> >>)
         \o << ArrayType, <<"items", child>> >>)

SchemaNames == {Str(<<"A">>), Str(<<"B">>), None}

Schemas == {Schema(n, c) : n \in SchemaNames, c \in Children}

\* A schema with nothing to resolve
LeafSchema(name) == Schema(name, StringProperty)

CatalogNames == SchemaNames \cup {Str(<<"A",".","b">>)}

\* The reference strings a catalog is probed with
ProbeRefs ==
    { <<"A">>, <<"A",".","j","s","o","n">>, <<"d","/","A",".","j","s","o","n">>, <<"d","/","A">>,
      <<"A",".","b">>, <<"A",".","b",".","j","s","o","n">>, <<"d","/","A",".","b",".","j","s","o","n">>, <<"d","/","A",".","b">>,
      <<"B">>, <<"x","/","y","/","B",".","j","s","o","n">>, <<"Z",".","j","s","o","n">>, <<"#","/","d">> }

\* The schema whose items are a reference to ref_path
Probe(ref_path) == Schema(Str(<<"P">>), RefNode(ref_path))

\* A diamond: A refers to B and to C, and both refer to D
Diamond ==
    << Schema(Str(<<"A">>),
              Dict(<< <<"a", RefNode(<<"B">>)>>, <<"b", RefNode(<<"C">>)>> >>)),
       Schema(Str(<<"B">>), RefNode(<<"D">>)),
       Schema(Str(<<"C">>), RefNode(<<"D">>)),
       LeafSchema(Str(<<"D">>)) >>

\* The sequences over S of length lo..hi
SeqsOf(S, lo, hi) == UNION {[1..n -> S] : n \in lo..hi}

Elements(seq) == {seq[i] : i \in 1..Len(seq)}

----------------------------------------------------------------------------
(* Values of the variables a call has not set yet *)

NotResolved ==
    [st |-> "none", val |-> None, visited |-> {}, err |-> NoError, log |-> <<>>]

NoReport == [kind |-> "none"]

\* temp: the temporary schema files; models_dir: whether ./models exists;
\* outputs: the generated model files
EmptyFs == [temp |-> 0, models_dir |-> FALSE, outputs |-> {}]

NotPicked == [model |-> None, second |-> None, matches |-> <<>>]

NoFiles == [name |-> <<>>, files |-> <<>>]

\* The library is called directly, with no caller loading files
DirectCall ==
    /\ caller = "none"
    /\ input_dir = NoFiles
    /\ schema_dir = NoFiles

----------------------------------------------------------------------------
(* Specification SpecResolve: resolve_external_refs applied to a main      *)
(* schema and a batch                                                      *)

InitResolve ==
    /\ pc = "resolve"
    /\ HSDS_MODELS = <<>>
    /\ \/ /\ json_schemas \in SeqsOf(Schemas, 1, MaxSchemas)
          /\ main_schema \in Elements(json_schemas)
       \/ /\ json_schemas \in
               {<<Probe(r)>> \o cat :
                   r \in ProbeRefs,
                   cat \in SeqsOf({LeafSchema(n) : n \in CatalogNames}, 1, MaxSchemas)}
          /\ main_schema = json_schemas[1]
       \/ /\ json_schemas = Diamond
          /\ main_schema = json_schemas[1]
    /\ filename = <<>>
    /\ json_data_list = <<>>
    /\ picked = NotPicked
    /\ resolved = NotResolved
    /\ cleaned_schema = None
    /\ pydantic_model = None
    /\ results = <<>>
    /\ raised = NoError
    /\ fs = EmptyFs
    /\ report = NoReport
    /\ DirectCall

Resolve ==
    /\ pc = "resolve"
    /\ resolved' = resolve_external_refs(main_schema, json_schemas)
    /\ pc' = "resolved"
    /\ UNCHANGED <<caller_vars, HSDS_MODELS, json_schemas, filename, json_data_list, picked,
                   main_schema, cleaned_schema, pydantic_model, results, raised, fs,
                   report>>

\* The reference-graph selection applied to the batch
DetectByGraph ==
    /\ pc = "resolve"
    /\ LET sel == detect_main_schema(json_schemas)
       IN  /\ main_schema' = sel.schema
           /\ raised' = sel.err
    /\ pc' = "graph"
    /\ UNCHANGED <<caller_vars, HSDS_MODELS, json_schemas, filename, json_data_list, picked,
                   resolved, cleaned_schema, pydantic_model, results, fs, report>>

NextResolve == Resolve \/ DetectByGraph

SpecResolve == InitResolve /\ [][NextResolve]_vars

----------------------------------------------------------------------------
(* Properties of resolve_external_refs, checked under SpecResolve *)

IsExternal(ref) == IsStr(ref) /\ ~StartsWith(ref.s, <<"#">>)

\* The external reference strings written anywhere in the batch
BatchRefs ==
    UNION {{x \in find_all_refs(json_schemas[i]) : IsExternal(x)} :
              i \in 1..Len(json_schemas)}

Log == resolved.log

\* The "$ref" calls that enclose history entry e: their strings, their schemas
PathRefs(e) == {e.path[k][1] : k \in 1..Len(e.path)}
PathDocs(e) == {e.path[k][2] : k \in 1..Len(e.path)}

\* The documents being resolved when e is decided: the root and the schemas
\* entered through the enclosing "$ref" calls
RootDocs == {i \in 1..Len(json_schemas) : json_schemas[i] = main_schema}
BeingResolved(e) == RootDocs \cup PathDocs(e)

\* C1: resolve_external_refs terminates on every batch, cyclic ones included:
\* it returns or raises, the recursion never runs away, and the "$ref" calls
\* nested at any moment carry pairwise distinct reference strings of the
\* batch, so there are never more of them than such strings.
C1_ResolveTerminates ==
    pc = "resolved" =>
        LET refs == BatchRefs IN
        /\ resolved.st \in {"ok", "raise"}
        /\ \A i \in 1..Len(Log) :
               /\ Cardinality(PathRefs(Log[i])) = Len(Log[i].path)
               /\ {Str(r) : r \in PathRefs(Log[i])} \subseteq refs
               /\ Len(Log[i].path) <= Cardinality(refs)

\* C1 witness: a cycle through two documents was met and a tree was returned
C1_Witness ==
    /\ pc = "resolved"
    /\ resolved.st = "ok"
    /\ \E i \in 1..Len(Log) :
           /\ Log[i].did = "placeholder"
           /\ Cardinality(PathDocs(Log[i])) >= 2

\* C2: a tree returned by resolve_external_refs holds no "$ref" key with an
\* external value; every "$ref" left starts with "#".
C2_NoExternalRefRemains ==
    (pc = "resolved" /\ resolved.st = "ok") =>
        \A x \in find_all_refs(resolved.val) : ~IsExternal(x)

\* C3 as claimed: a "$ref" is replaced by the placeholder exactly when its
\* target document is being resolved on the traversal path (the root or a
\* document entered through an enclosing "$ref", whatever the spelling).
C3_PlaceholderIffTargetBeingResolved ==
    \A i \in 1..Len(Log) :
        Log[i].did \in {"placeholder", "inlined"} =>
            (Log[i].did = "placeholder" <=> Log[i].target \in BeingResolved(Log[i]))

\* C3 as the code has it: a "$ref" is replaced by the placeholder exactly
\* when its reference string, as written, is the string of an enclosing
\* "$ref" still being resolved; the body of its target is then not inlined
\* at that node, and its target is one of the documents being resolved.
C3_PlaceholderIffStringOnPath ==
    \A i \in 1..Len(Log) :
        /\ Log[i].did = "placeholder" <=>
               (Log[i].did # "unresolved" /\ Log[i].ref \in PathRefs(Log[i]))
        /\ Log[i].did = "placeholder" =>
               /\ Log[i].target \in PathDocs(Log[i])
               /\ resolved.st = "ok" =>
                      Str(CircularPrefix \o Log[i].ref) \in
                          {Get(d, "description") :
                              d \in {Placeholder(Log[j].ref) : j \in 1..Len(Log)}}

\* C3 witness: one "$ref" was replaced by the placeholder, and another whose
\* target was being resolved was inlined
C3_Witness ==
    /\ pc = "resolved"
    /\ resolved.st = "ok"
    /\ \E i \in 1..Len(Log) : Log[i].did = "placeholder"
    /\ \E i \in 1..Len(Log) :
           Log[i].did = "inlined" /\ Log[i].target \in BeingResolved(Log[i])

\* Every value held anywhere in obj, obj included
RECURSIVE Subvalues(_)
Subvalues(obj) ==
    {obj} \cup
    (IF IsDict(obj) THEN UNION {Subvalues(obj.kv[i][2]) : i \in 1..Len(obj.kv)}
     ELSE IF IsList(obj) THEN UNION {Subvalues(obj.xs[i]) : i \in 1..Len(obj.xs)}
     ELSE {})

\* The external reference strings written anywhere in schema
RefsAnywhere(schema) ==
    {Get(d, "$ref").s :
        d \in {v \in Subvalues(schema) :
                  IsDict(v) /\ HasKey(v, "$ref") /\ IsExternal(Get(v, "$ref"))}}

\* Schema j holds a reference that the catalog resolves to the identifier of
\* schema i
Refers(j, i) ==
    LET lookup == schema_lookup(json_schemas) IN
    \E r \in RefsAnywhere(json_schemas[j]) :
        LET t == FindRefSchema(lookup, r)
        IN  /\ t # 0
            /\ get_schema_identifier(json_schemas[t])
                   = get_schema_identifier(json_schemas[i])

\* The schemas whose identifier no other schema of the batch refers to
Unreferenced ==
    {i \in 1..Len(json_schemas) :
        \A j \in (1..Len(json_schemas)) \ {i} : ~Refers(j, i)}

\* C4: selection by the reference graph returns the one schema whose
\* identifier no other schema refers to; it fails with NoMainSchema when
\* every schema is referred to by another, and with AmbiguousMainSchema,
\* naming every candidate, when more than one schema is not.
C4_GraphSelection ==
    pc = "graph" =>
        LET unref == Unreferenced IN
        /\ Cardinality(unref) = 1 =>
               /\ raised = NoError
               /\ \A i \in unref : main_schema = json_schemas[i]
        /\ unref = {} =>
               main_schema = None /\ raised.kind = "NoMainSchema"
        /\ Cardinality(unref) > 1 =>
               /\ main_schema = None
               /\ raised.kind = "AmbiguousMainSchema"
               /\ Len(raised.names) = Cardinality(unref)
               /\ {raised.names[k] : k \in 1..Len(raised.names)}
                      = {PyStr(get_schema_identifier(json_schemas[i])) : i \in unref}

\* C4 witness: of two schemas, the one that refers to the other from inside
\* a list was selected
C4_Witness ==
    /\ pc = "graph"
    /\ raised = NoError
    /\ Len(json_schemas) = 2
    /\ \E i, j \in 1..2 :
           /\ i # j
           /\ main_schema = json_schemas[i]
           /\ Refers(i, j)
           /\ IsList(Get(main_schema, "items"))

\* C8: an external "$ref" that matches no catalog entry makes resolution
\* fail; no returned tree has such a reference left in place.
C8_UnresolvedNeverLeftInPlace ==
    (pc = "resolved" /\ resolved.st = "ok") =>
        LET lookup == schema_lookup(json_schemas) IN
        \A x \in find_all_refs(resolved.val) :
            IsExternal(x) => FindRefSchema(lookup, x.s) # 0

\* The spellings of a reference to identifier n: the bare name, name.json
\* and paths ending in either
Spellings(n) ==
    {n, n \o DotJson, <<"d", "/">> \o n \o DotJson, <<"d", "/">> \o n,
     <<"x", "/", "y", "/">> \o n \o DotJson}

----------------------------------------------------------------------------
(* The steps of detect_main_schema_by_filename, shared by SpecSelect and    *)
(* Spec.  pc is "detect" on entry, "picked" after pick_model_to_validate,   *)
(* "selected" once a schema is returned and "raised" after an exception.    *)

DetectFail ==
    /\ pc = "detect"
    /\ DetectPrecheck(json_schemas, filename) # NoError
    /\ raised' = DetectPrecheck(json_schemas, filename)
    /\ pc' = "raised"
    /\ UNCHANGED <<caller_vars, HSDS_MODELS, json_schemas, filename, json_data_list, picked,
                   main_schema, resolved, cleaned_schema, pydantic_model, results, fs, report>>

PickModel ==
    /\ pc = "detect"
    /\ DetectPrecheck(json_schemas, filename) = NoError
    /\ picked' = pick_model_to_validate(filename, HSDS_MODELS)
    /\ pc' = "picked"
    /\ UNCHANGED <<caller_vars, HSDS_MODELS, json_schemas, filename, json_data_list,
                   main_schema, resolved, cleaned_schema, pydantic_model, results, raised, fs, report>>

MatchSchema ==
    /\ pc = "picked"
    /\ LET sel == DetectAfterPick(json_schemas, filename, picked)
       IN  /\ main_schema' = sel.schema
           /\ raised' = sel.err
           /\ pc' = IF sel.st = "ok" THEN "selected" ELSE "raised"
    /\ UNCHANGED <<caller_vars, HSDS_MODELS, json_schemas, filename, json_data_list, picked,
                   resolved, cleaned_schema, pydantic_model, results, fs, report>>

----------------------------------------------------------------------------
(* Specification SpecSelect: detect_main_schema_by_filename applied to a    *)
(* registry, a filename and a batch                                         *)

Registries ==
    { <<<<"A">>, <<"B">>, <<"A","_","b">>>>,
      <<<<"A","_","b">>, <<"B">>, <<"A","b">>>>,
      <<<<"A","b">>, <<"A","_","B">>, <<"a","_","b","_">>>> }

Filenames ==
    { <<>>, <<"a",".","j","s","o","n">>, <<"d","/","A",".","J","S","O","N">>, <<"a","_","1",".","j","s","o","n">>, <<"a","_","b",".","j","s","o","n">>,
      <<"A","B">>, <<"d","/","_","b",".","x",".","j","s","o","n">>, <<".","a">>, <<"b",".">>, <<"z",".","j","s","o","n">> }

SelectNames ==
    { Str(<<"A">>), Str(<<"a">>), Str(<<"B">>), Str(<<"a","_","b">>), Str(<<"A","B">>),
      Str(<<>>), None }

InitSelect ==
    /\ pc = "detect"
    /\ HSDS_MODELS \in Registries
    /\ json_schemas \in SeqsOf({LeafSchema(n) : n \in SelectNames}, 0, MaxSchemas)
    /\ filename \in Filenames
    /\ json_data_list = <<>>
    /\ picked = NotPicked
    /\ main_schema = None
    /\ resolved = NotResolved
    /\ cleaned_schema = None
    /\ pydantic_model = None
    /\ results = <<>>
    /\ raised = NoError
    /\ fs = EmptyFs
    /\ report = NoReport
    /\ DirectCall

NextSelect == DetectFail \/ PickModel \/ MatchSchema

SpecSelect == InitSelect /\ [][NextSelect]_vars

----------------------------------------------------------------------------
(* Properties of detect_main_schema_by_filename, checked under SpecSelect *)

\* C5: the file name (extension and directories dropped, lower-cased,
\* underscores removed) is compared for equality with each canonical name
\* normalized alike; when more than one canonical name is equal, the call
\* fails with the ambiguity failure, which names all the matches.
C5_AmbiguityNamesAllMatches ==
    (pc = "raised" /\ Len(picked.matches) > 1) =>
        /\ raised.what = "Ambiguous HSDS model in filename"
        /\ raised.names = picked.matches

\* a and b are the same name up to the case of their letters
EqualIgnoringCase(a, b) ==
    /\ Len(a) = Len(b)
    /\ \A i \in 1..Len(a) : LowerChar(a[i]) = LowerChar(b[i])

\* The schemas of the batch that declare a non-empty name
Named == {i \in 1..Len(json_schemas) :
             LET id == get_schema_identifier(json_schemas[i])
             IN  IsStr(id) /\ id.s # <<>>}

\* C6: once pick_model_to_validate has named a model, the call returns a
\* schema of the batch whose declared name equals the model's canonical name
\* up to case, and it does so whenever the batch has one; when the batch has
\* none it raises, listing the names of the batch.
C6_SchemaMatchesModelName ==
    (pc \in {"selected", "raised"} /\ picked.model # None) =>
        LET model_name == picked.second.s
            fitting == {i \in Named :
                           EqualIgnoringCase(
                               get_schema_identifier(json_schemas[i]).s, model_name)}
        IN  /\ pc = "selected" <=> fitting # {}
            /\ pc = "selected" =>
                   /\ raised = NoError
                   /\ \E i \in fitting : main_schema = json_schemas[i]
            /\ pc = "raised" =>
                   /\ raised.kind = "ValueError"
                   /\ raised.what = "Could not find schema matching model"
                   /\ raised.arg = model_name
                   /\ Len(raised.names) = Cardinality(Named)
                   /\ {raised.names[k] : k \in 1..Len(raised.names)}
                          = {get_schema_identifier(json_schemas[i]).s : i \in Named}

\* C6 witness: the schema returned declares the model's name in another case
C6_Witness ==
    /\ pc = "selected"
    /\ picked.model # None
    /\ get_schema_identifier(main_schema) # picked.second
    /\ Len(json_schemas) > 1

----------------------------------------------------------------------------
(* Specification Spec: one call of bulk_validate from the API endpoint,     *)
(* from its entry to the report.  pc is "bulk_validate" on entry, then the  *)
(* steps of detect_main_schema_by_filename, "validate" while the documents  *)
(* are validated, "returned" once the outcomes are returned, "raised" after *)
(* an exception and "reported" once the endpoint has built its answer.      *)

PipelineRegistry == << <<"A">>, <<"B">>, <<"A","_","b">> >>

PipelineFilenames == { <<>>, <<"a",".","j","s","o","n">>, <<"z",".","j","s","o","n">> }

\* A schema with the keys clean_hsds_schema removes
MetadataSchema ==
    Dict(<< <<"name", Str(<<"A">>)>>,
            <<"path", Str(<<"a">>)>>,
            ArrayType,
            <<"items", Dict(<< <<"type", Str(<<"s","t","r","i","n","g">>)>>,
                               <<"example", Str(<<"e">>)>> >>)>> >>)

PipelineSchemas ==
    { LeafSchema(Str(<<"A">>)),
      Schema(Str(<<"A">>), RefNode(<<"B">>)),
      LeafSchema(Str(<<"B">>)),
      MetadataSchema }

Doc1 == Dict(<< <<"id", Str(<<"1">>)>> >>)
Doc2 == Dict(<<>>)

Documents == {Doc1, Doc2}

DocumentNames == { <<"x",".","j","s","o","n">>, <<"y",".","j","s","o","n">> }

Valid == [kind |-> "valid"]
Invalid(errors) == [kind |-> "ValidationError", errors |-> errors]
Crash(msg) == [kind |-> "Exception", msg |-> msg]

\* What a compiled model may answer for the documents
Behaviours ==
    { [d \in Documents |-> Valid],
      [d \in Documents |->
          IF d = Doc1 THEN Valid
          ELSE Invalid(<< [loc |-> <<Str(<<"i","d">>)>>, msg |-> "Field required"],
                          [loc |-> <<Str(<<"i","t","e","m","s">>), Index(10)>>,
                           msg |-> "Input should be a valid string"],
                          [loc |-> <<Str(<<"a","d","d","r","e","s","s","e","s">>), Index(0),
                                     Str(<<"p","o","s","t","a","l","_","c","o","d","e">>)>>,
                           msg |-> "Extra inputs are not permitted"] >>)],
      [d \in Documents |->
          IF d = Doc1 THEN Invalid(<< [loc |-> <<>>, msg |-> "Input should be a valid list"] >>)
          ELSE Crash("maximum recursion depth exceeded")] }

Init ==
    /\ pc = "bulk_validate"
    /\ HSDS_MODELS = PipelineRegistry
    /\ json_schemas \in SeqsOf(PipelineSchemas, 0, MaxSchemas)
    /\ filename \in PipelineFilenames
    /\ json_data_list \in SeqsOf(DocumentNames \X Documents, 0, MaxDocs)
    /\ picked = NotPicked
    /\ main_schema = None
    /\ resolved = NotResolved
    /\ cleaned_schema = None
    /\ pydantic_model = None
    /\ results = <<>>
    /\ raised = NoError
    /\ fs = EmptyFs
    /\ report = NoReport
    /\ DirectCall

\* if not json_schemas: raise ValueError("No schemas provided")
BulkValidate ==
    /\ pc = "bulk_validate"
    /\ IF json_schemas = <<>>
       THEN /\ raised' = Error("ValueError", "No schemas provided", <<>>, <<>>)
            /\ pc' = "raised"
       ELSE /\ raised' = raised
            /\ pc' = "detect"
    /\ UNCHANGED <<caller_vars, HSDS_MODELS, json_schemas, filename, json_data_list, picked,
                   main_schema, resolved, cleaned_schema, pydantic_model, results, fs, report>>

\* The cleaned schema generate_models hands to create_model_from_schema
CleanedSchema ==
    LET r == resolve_external_refs(main_schema, json_schemas)
    IN  IF r.st = "ok" THEN clean_hsds_schema(r.val) ELSE None

\* Without a model of the validation library, the compiled model may answer
\* in any of the ways of Behaviours
AnyModel == {ModelClass(CleanedSchema, behaviour) : behaviour \in Behaviours}

\* generate_models, with model_classes the model classes that
\* create_model_from_schema may build from the cleaned schema
Generate(model_classes) ==
    /\ pc = "selected"
    /\ LET r == resolve_external_refs(main_schema, json_schemas) IN
       /\ resolved' = r
       /\ cleaned_schema' = CleanedSchema
       /\ \/ /\ r.st # "ok"
             /\ raised' = ModelGenerationFailed(r.err)
             /\ pc' = "raised"
             /\ UNCHANGED <<pydantic_model, fs>>
          \/ \* create_model_from_schema raises
             /\ r.st = "ok"
             /\ raised' = ModelGenerationFailed("create_model_from_schema")
             /\ pc' = "raised"
             /\ UNCHANGED <<pydantic_model, fs>>
          \/ \* datamodel-codegen exits with an error
             /\ r.st = "ok"
             /\ fs' = TempFileWritten(fs)
             /\ raised' = ModelGenerationFailed("CalledProcessError")
             /\ pc' = "raised"
             /\ UNCHANGED pydantic_model
          \/ /\ r.st = "ok"
             /\ pydantic_model' \in model_classes
             /\ fs' = CodegenDone(TempFileWritten(fs), main_schema)
             /\ pc' = "validate"
             /\ UNCHANGED raised
    /\ UNCHANGED <<caller_vars, HSDS_MODELS, json_schemas, filename, json_data_list, picked,
                   main_schema, results, report>>

GenerateModels == Generate(AnyModel)

\* Mutant: a model class is built anew for each document
ValidateDocument_OwnModel ==
    /\ pc = "validate"
    /\ Len(results) < Len(json_data_list)
    /\ pydantic_model' \in AnyModel
    /\ LET input == json_data_list[Len(results) + 1]
       IN  /\ filename' = input[1]
           /\ results' = AppendOutcome(results, validate(input[2], input[1], pydantic_model'))
    /\ UNCHANGED <<caller_vars, pc, HSDS_MODELS, json_schemas, json_data_list, picked,
                   main_schema, resolved, cleaned_schema, raised, fs, report>>

\* One turn of the loop over json_data_list.  The loop variable is called
\* filename too: from the first turn on, the name no longer holds the
\* batch-level hint but the file name of the document at hand.
ValidateDocument ==
    /\ pc = "validate"
    /\ Len(results) < Len(json_data_list)
    /\ LET input == json_data_list[Len(results) + 1]
       IN  /\ filename' = input[1]
           /\ results' = AppendOutcome(results, validate(input[2], input[1], pydantic_model))
    /\ UNCHANGED <<caller_vars, pc, HSDS_MODELS, json_schemas, json_data_list, picked,
                   main_schema, resolved, cleaned_schema, pydantic_model, raised, fs, report>>

\* return results
Return ==
    /\ pc = "validate"
    /\ Len(results) = Len(json_data_list)
    /\ pc' = "returned"
    /\ UNCHANGED <<caller_vars, HSDS_MODELS, json_schemas, filename, json_data_list, picked,
                   main_schema, resolved, cleaned_schema, pydantic_model, results, raised, fs, report>>

Report ==
    /\ pc = "returned"
    /\ report' = BuildReport(results)
    /\ pc' = "reported"
    /\ UNCHANGED <<caller_vars, HSDS_MODELS, json_schemas, filename, json_data_list, picked,
                   main_schema, resolved, cleaned_schema, pydantic_model, results, raised, fs>>

\* The CLI builds its output from the outcomes; it calls bulk_validate only
\* with documents to validate
CliReport ==
    /\ pc = "returned"
    /\ json_data_list # <<>>
    /\ report' = CliBuildReport(results)
    /\ pc' = "reported"
    /\ UNCHANGED <<caller_vars, HSDS_MODELS, json_schemas, filename, json_data_list, picked,
                   main_schema, resolved, cleaned_schema, pydantic_model, results, raised, fs>>

\* The API endpoint's handler around bulk_validate; an exception it does not
\* catch leaves the endpoint
ReportFailure ==
    /\ pc = "raised"
    /\ IF Caught(raised)
       THEN /\ report' = FailureReport(raised)
            /\ pc' = "reported"
       ELSE /\ report' = report
            /\ pc' = "uncaught"
    /\ UNCHANGED <<caller_vars, HSDS_MODELS, json_schemas, filename, json_data_list, picked,
                   main_schema, resolved, cleaned_schema, pydantic_model, results, raised, fs>>

\* The CLI's handler around bulk_validate, which the CLI calls only with
\* schemas and with documents
CliReportFailure ==
    /\ pc = "raised"
    /\ json_schemas # <<>>
    /\ json_data_list # <<>>
    /\ IF Caught(raised)
       THEN /\ report' = CliFailureReport(raised)
            /\ pc' = "reported"
       ELSE /\ report' = report
            /\ pc' = "uncaught"
    /\ UNCHANGED <<caller_vars, HSDS_MODELS, json_schemas, filename, json_data_list, picked,
                   main_schema, resolved, cleaned_schema, pydantic_model, results, raised, fs>>

Next ==
    \/ BulkValidate
    \/ DetectFail
    \/ PickModel
    \/ MatchSchema
    \/ GenerateModels
    \/ ValidateDocument
    \/ Return
    \/ Report
    \/ CliReport
    \/ ReportFailure
    \/ CliReportFailure

Spec == Init /\ [][Next]_vars

----------------------------------------------------------------------------
(* Properties of bulk_validate and of the report, checked under Spec *)

\* Two schemas of the batch declare the same identifier
DuplicateIdentifier ==
    \E i, j \in 1..Len(json_schemas) :
        /\ i < j
        /\ get_schema_identifier(json_schemas[i]) # None
        /\ get_schema_identifier(json_schemas[i]) = get_schema_identifier(json_schemas[j])

\* C7: when two schemas of a batch declare the same identifier the call
\* fails before any document is validated: the validation loop is never
\* entered and no outcome is produced.
C7_DuplicateIdentifierIsFatal ==
    DuplicateIdentifier =>
        /\ results = <<>>
        /\ pc \notin {"validate", "returned"}

\* The k-th smallest member of the set of indices S
NthOf(S, k) == CHOOSE i \in S : Cardinality({j \in S : j < i}) = k - 1

\* The file names of the inputs whose index is in S, in input order
NamesInOrder(S) ==
    [k \in 1..Cardinality(S) |-> json_data_list[NthOf(S, k)][1]]

\* C10: bulk_validate returns one outcome per input pair, the i-th carrying
\* the file name of the i-th input, duplicated names included; the report
\* lists the passed files, the failed files and the errors in input order.
C10_OutcomesInInputOrder ==
    /\ Len(results) <= Len(json_data_list)
    /\ \A i \in 1..Len(results) : results[i].filename = json_data_list[i][1]
    /\ pc = "returned" => Len(results) = Len(json_data_list)
    /\ (pc = "reported" /\ raised = NoError) =>
           LET N      == Len(json_data_list)
               passed == {i \in 1..N : results[i].success}
               failed == {i \in 1..N : ~results[i].success}
           IN  /\ Len(results) = N
               /\ report.successful_files = NamesInOrder(passed)
               /\ report.failed_files = NamesInOrder(failed)
               /\ Len(report.errors) = Cardinality(failed)
               /\ \A k \in 1..Len(report.errors) :
                      /\ report.errors[k].filename = json_data_list[NthOf(failed, k)][1]
                      /\ report.errors[k].errors = ErrorsOf(results[NthOf(failed, k)])

\* C10 witness: two documents under differing names, the first failed and
\* the second passed, and the report is built
C10_Witness ==
    /\ pc = "reported"
    /\ raised = NoError
    /\ Len(json_data_list) = 2
    /\ json_data_list[1][1] # json_data_list[2][1]
    /\ ~results[1].success
    /\ results[2].success

\* What the compiled model answers for the i-th document
VerdictOf(i) == pydantic_model.model_validate[json_data_list[i][2]]

\* C11: a failure while validating one document never aborts the batch:
\* once the model is compiled nothing is raised; a schema violation or any
\* other exception becomes that document's outcome with success false, an
\* exception other than a violation as exactly one entry carrying its
\* message; and every document gets its outcome.
C11_DocumentFailureDoesNotAbort ==
    pydantic_model # None =>
        /\ raised = NoError
        /\ pc \in {"validate", "returned", "reported"}
        /\ pc \in {"returned", "reported"} => Len(results) = Len(json_data_list)
        /\ \A i \in 1..Len(results) :
               /\ results[i].success <=> VerdictOf(i).kind = "valid"
               /\ VerdictOf(i).kind = "Exception" =>
                      /\ Len(results[i].errors) = 1
                      /\ results[i].errors[1].error = VerdictOf(i).msg

\* C11 witness: the validator threw on the first document and reported
\* violations for the second; both have their outcome
C11_Witness ==
    /\ pc = "returned"
    /\ Len(results) = 2
    /\ VerdictOf(1).kind = "Exception"
    /\ VerdictOf(2).kind = "ValidationError"
    /\ ~results[1].success
    /\ ~results[2].success

\* C12: a batch-level failure (no schemas, no model for the file name, no
\* schema for the model, an unresolved reference, a failed generation) is
\* raised before any document is validated, leaves no outcome, and is
\* reported once for the batch.
C12_BatchFailureBeforeValidation ==
    /\ raised # NoError =>
           /\ results = <<>>
           /\ pydantic_model = None
           /\ pc \in {"raised", "reported"}
    /\ (json_schemas = <<>> /\ pc # "bulk_validate") => raised.what = "No schemas provided"
    /\ (picked # NotPicked /\ picked.model = None /\ pc # "picked") =>
           raised.what = "No matching model found for filename"
    /\ (resolved.st = "raise") =>
           raised.what = "Model generation failed" /\ raised.arg = resolved.err
    /\ (pc = "reported" /\ raised # NoError) =>
           /\ report.kind = "failure"
           /\ ~report.success
           /\ Len(report.errors) = 1
           /\ \/ report.errors[1] = FailureReport(raised).errors[1]
              \/ report.errors[1] = CliFailureReport(raised).errors[1]

\* C12 witness: a reference of the main schema is unresolved, documents were
\* given, and the failure is reported
C12_Witness ==
    /\ pc = "reported"
    /\ resolved.st = "raise"
    /\ json_data_list # <<>>
    /\ report.kind = "failure"

\* The outcomes that passed, the outcomes that failed
Passed == {i \in 1..Len(results) : results[i].success}
Failed == {i \in 1..Len(results) : ~results[i].success}

\* How many of the items of seq satisfy Test
CountIn(seq, Test(_)) == Cardinality({k \in 1..Len(seq) : Test(seq[k])})

\* C13: in the report built from the outcomes, by the API endpoint or by the
\* CLI, success is true exactly when every outcome succeeded; total_files is
\* the number of outcomes and the sum of successful and failed; the two file
\* lists partition the outcomes by their success flag; errors has one entry
\* per failed outcome, with its file name and its list of violations.
C13_ReportAgreesWithOutcomes ==
    (pc = "reported" /\ report.kind = "summary") =>
        /\ report.success <=> \A i \in 1..Len(results) : results[i].success
        /\ report.summary.total_files = Len(results)
        /\ report.summary.total_files
               = report.summary.successful + report.summary.failed
        /\ report.summary.successful = Cardinality(Passed)
        /\ report.summary.failed = Cardinality(Failed)
        /\ Len(report.successful_files) = Cardinality(Passed)
        /\ Len(report.failed_files) = Cardinality(Failed)
        /\ Len(report.errors) = Cardinality(Failed)
        /\ \A i \in 1..Len(results) :
               LET name == results[i].filename IN
               /\ CountIn(report.successful_files, LAMBDA f : f = name)
                      = Cardinality({j \in Passed : results[j].filename = name})
               /\ CountIn(report.failed_files, LAMBDA f : f = name)
                      = Cardinality({j \in Failed : results[j].filename = name})
               /\ i \in Failed =>
                      CountIn(report.errors,
                              LAMBDA e : e = [filename |-> name,
                                              errors |-> results[i].errors])
                          = Cardinality({j \in Failed : results[j] = results[i]})

\* C13 witness: a report over one passed and one failed file of the same name
C13_Witness ==
    /\ pc = "reported"
    /\ report.kind = "summary"
    /\ Len(results) = 2
    /\ Cardinality(Passed) = 1
    /\ results[1].filename = results[2].filename
    /\ ~report.success

\* The pieces of s between the occurrences of c
RECURSIVE Split(_, _)
Split(s, c) ==
    IF \A i \in 1..Len(s) : s[i] # c THEN <<s>>
    ELSE LET i == CHOOSE k \in 1..Len(s) : s[k] = c /\ \A j \in 1..(k-1) : s[j] # c
         IN  <<SubSeq(s, 1, i - 1)>> \o Split(SubSeq(s, i + 1, Len(s)), c)

DigitValue(d) == CHOOSE n \in 0..9 : Digits[n + 1] = d

\* The number a string of decimal digits writes, -1 for any other string
RECURSIVE ParseNat(_)
ParseNat(s) ==
    IF s = <<>> \/ \E i \in 1..Len(s) : \A n \in 1..10 : Digits[n] # s[i] THEN -1
    ELSE IF Len(s) = 1 THEN DigitValue(s[1])
    ELSE 10 * ParseNat(SubSeq(s, 1, Len(s) - 1)) + DigitValue(s[Len(s)])

\* column is the location loc: its keys and indices, in order, with "."
\* between them
Renders(column, loc) ==
    IF loc = <<>> THEN column = <<>>
    ELSE LET parts == Split(column, ".") IN
         /\ Len(parts) = Len(loc)
         /\ \A k \in 1..Len(loc) :
                IF loc[k].t = "int" THEN ParseNat(parts[k]) = loc[k].n
                ELSE parts[k] = loc[k].s

\* C14: for the violations the validator reports on a document, the outcome
\* has one entry per violation, in the validator's order; its column is the
\* location's keys and indices joined with "." and its error the
\* validator's message.
C14_ColumnIsDotJoinedLocation ==
    \A i \in 1..Len(results) :
        VerdictOf(i).kind = "ValidationError" =>
            LET violations == VerdictOf(i).errors IN
            /\ Len(results[i].errors) = Len(violations)
            /\ \A k \in 1..Len(violations) :
                   /\ DOMAIN results[i].errors[k] = {"column", "error"}
                   /\ results[i].errors[k].error = violations[k].msg
                   /\ Renders(results[i].errors[k].column, violations[k].loc)
                   /\ violations[k].loc = <<Str(<<"i","d">>)>> =>
                          results[i].errors[k].column = <<"i","d">>
                   /\ violations[k].loc = <<Str(<<"a","d","d","r","e","s","s","e","s">>), Index(0),
                                            Str(<<"p","o","s","t","a","l","_","c","o","d","e">>)>> =>
                          results[i].errors[k].column =
                              <<"a","d","d","r","e","s","s","e","s",".","0",".",
                                "p","o","s","t","a","l","_","c","o","d","e">>

\* C14 witness: an outcome with three violations, one at a top-level key, one
\* at an index above 9 and one three levels deep
C14_Witness ==
    /\ pc = "returned"
    /\ \E i \in 1..Len(results) :
           /\ ~results[i].success
           /\ Len(results[i].errors) = 3
           /\ results[i].errors[2].column = <<"i","t","e","m","s",".","1","0">>

----------------------------------------------------------------------------
(* Specification SpecClean: clean_hsds_schema applied to a schema tree *)

StringType == <<"type", Str(<<"s","t","r","i","n","g">>)>>
ObjectType == <<"type", Str(<<"o","b","j","e","c","t">>)>>

\* The property definitions the trees are built from
PropertyDefinitions ==
    { \* a typed definition with metadata
      Dict(<< StringType, <<"title", Str(<<"T">>)>>, <<"example", Str(<<"e">>)>> >>),
      \* a definition without "type"
      Dict(<< <<"enum", List(<<Str(<<"a">>)>>)>>, <<"title", Str(<<"T">>)>> >>),
      \* an array whose items schema has metadata
      Dict(<< ArrayType,
              <<"items", Dict(<< StringType, <<"order", Str(<<"1">>)>> >>)>> >>),
      \* an object with properties named like metadata keys and like "type"
      Dict(<< ObjectType,
              <<"name", Str(<<"n">>)>>,
              <<"required", List(<<Str(<<"n","a","m","e">>)>>)>>,
              <<"properties", Dict(<< <<"name", Dict(<<StringType>>)>>,
                                      <<"type", Dict(<<StringType>>)>> >>)>> >>),
      \* alternatives held in a list
      Dict(<< <<"anyOf", List(<<Dict(<< StringType, <<"title", Str(<<"T">>)>> >>)>>)>> >>) }

PropertyNames == {"id", "type", "name", "order"}

\* The "properties" maps: one or two properties under differing names
PropertyMaps ==
    {<< <<k, d>> >> : k \in PropertyNames, d \in PropertyDefinitions}
    \cup {pm \in {<< <<k1, d1>>, <<k2, d2>> >> :
                       k1 \in PropertyNames, k2 \in PropertyNames,
                       d1 \in PropertyDefinitions, d2 \in PropertyDefinitions} :
             pm[1][1] # pm[2][1]}

\* The root keys a tree may start with
RootHeads ==
    { <<>>,
      << <<"name", Str(<<"A">>)>> >>,
      << <<"path", Str(<<"a">>)>> >>,
      << <<"name", Str(<<"A">>)>>, <<"path", Str(<<"a">>)>> >> }

CleanInputs ==
    {Dict(head \o << ObjectType,
                     <<"required", List(<<Str(<<"i","d">>)>>)>>,
                     <<"properties", Dict(pm)>> >>) :
        head \in RootHeads, pm \in PropertyMaps}

InitClean ==
    /\ pc = "clean"
    /\ main_schema \in CleanInputs
    /\ HSDS_MODELS = <<>>
    /\ json_schemas = <<>>
    /\ filename = <<>>
    /\ json_data_list = <<>>
    /\ picked = NotPicked
    /\ resolved = NotResolved
    /\ cleaned_schema = None
    /\ pydantic_model = None
    /\ results = <<>>
    /\ raised = NoError
    /\ fs = EmptyFs
    /\ report = NoReport
    /\ DirectCall

\* Mutant: the keys are deleted from the dicts of the argument
ArgumentAfterClean_InPlace(schema) == clean_hsds_schema(schema)

\* The argument once clean_hsds_schema has returned: clean_properties puts
\* what it keeps into new dicts and lists (cleaned, property_cleaned, the
\* list comprehension) and assigns to nothing it was given
ArgumentAfterClean(schema) == schema

Clean ==
    /\ pc = "clean"
    /\ cleaned_schema' = clean_hsds_schema(main_schema)
    /\ main_schema' = ArgumentAfterClean(main_schema)
    /\ pc' = "cleaned"
    /\ UNCHANGED <<caller_vars, HSDS_MODELS, json_schemas, filename, json_data_list, picked,
                   resolved, pydantic_model, results, raised, fs, report>>

\* clean_hsds_schema applied to its own output
CleanAgain ==
    /\ pc = "cleaned"
    /\ cleaned_schema' = clean_hsds_schema(cleaned_schema)
    /\ main_schema' = main_schema
    /\ pc' = "cleaned again"
    /\ UNCHANGED <<caller_vars, HSDS_MODELS, json_schemas, filename, json_data_list, picked,
                   resolved, pydantic_model, results, raised, fs, report>>

NextClean == Clean \/ CleanAgain

SpecClean == InitClean /\ [][NextClean]_vars

----------------------------------------------------------------------------
(* Properties of clean_hsds_schema, checked under SpecClean *)

\* The schema definitions of a tree: the tree, the definitions under its
\* "properties", its "items" and the members of its "anyOf", at any depth
RECURSIVE SchemaDefinitions(_)
SchemaDefinitions(schema) ==
    {schema} \cup
    (IF IsDict(schema) /\ HasKey(schema, "properties") /\ IsDict(Get(schema, "properties"))
     THEN LET props == Get(schema, "properties")
          IN  UNION {SchemaDefinitions(props.kv[i][2]) : i \in 1..Len(props.kv)}
     ELSE {}) \cup
    (IF IsDict(schema) /\ HasKey(schema, "items")
     THEN SchemaDefinitions(Get(schema, "items")) ELSE {}) \cup
    (IF IsDict(schema) /\ HasKey(schema, "anyOf") /\ IsList(Get(schema, "anyOf"))
     THEN LET alts == Get(schema, "anyOf")
          IN  UNION {SchemaDefinitions(alts.xs[i]) : i \in 1..Len(alts.xs)}
     ELSE {})

\* C16: in the output of clean_hsds_schema no schema definition, the root
\* included, carries a metadata key (name, title, constraints, example,
\* core, order), and the root carries no path, datapackage_metadata or
\* tabular_required.
C16_NoMetadataKeyRemains ==
    pc = "cleaned" =>
        /\ \A d \in SchemaDefinitions(cleaned_schema) :
               IsDict(d) =>
                   Keys(d) \cap {"name", "title", "constraints", "example", "core", "order"} = {}
        /\ Keys(cleaned_schema) \cap {"path", "datapackage_metadata", "tabular_required"} = {}

\* Definition b keeps what definition a has that matters for validation: its
\* type, required and enum entries, its items and every property name, and
\* so on for the definitions below it
RECURSIVE Preserves(_, _)
Preserves(a, b) ==
    /\ IsDict(b)
    /\ \A k \in {"type", "required", "enum"} \cap Keys(a) :
           HasKey(b, k) /\ Get(b, k) = Get(a, k)
    /\ HasKey(a, "items") =>
           HasKey(b, "items") /\ Preserves(Get(a, "items"), Get(b, "items"))
    /\ HasKey(a, "properties") =>
           /\ HasKey(b, "properties")
           /\ Keys(Get(b, "properties")) = Keys(Get(a, "properties"))
           /\ \A name \in Keys(Get(a, "properties")) :
                  Preserves(Get(Get(a, "properties"), name),
                            Get(Get(b, "properties"), name))

\* C17: the output of clean_hsds_schema keeps, for every schema object of
\* the input, its type, required, items and enum entries and all its
\* property names, whatever the properties are called.
C17_ValidationKeysPreserved ==
    pc = "cleaned" => Preserves(main_schema, cleaned_schema)

----------------------------------------------------------------------------
(* Aliasing between the resolved tree and the schemas given, checked under  *)
(* SpecResolve.  A history entry "verbatim" stands for a node of the result *)
(* that is the very node of the document it was met in.                     *)

\* C18: the tree returned by resolve_external_refs shares no dict or list
\* with the main schema or with a schema of the batch: every node of the
\* result, a node holding a fragment "$ref" included, is a fresh copy.
C18_ResultSharesNoNode ==
    (pc = "resolved" /\ resolved.st = "ok") =>
        \A i \in 1..Len(Log) : Log[i].did # "verbatim"

----------------------------------------------------------------------------
(* What a call of bulk_validate leaves behind, checked under Spec *)

\* C19: once bulk_validate has returned or raised, nothing it created is
\* left on the file system: no directory, no generated file, no temporary
\* file.
C19_NothingPersists ==
    pc \in {"returned", "raised", "reported"} => fs = EmptyFs

----------------------------------------------------------------------------
(* Specification SpecScenario: bulk_validate on a parent schema that        *)
(* refers to a child schema.  Here the model class that                     *)
(* create_model_from_schema builds is taken to accept the documents that    *)
(* conform to the cleaned schema: "type", "required" and "properties",      *)
(* with the keys outside "properties" refused ("extra": "forbid").          *)

ParentName == <<"p","a","r","e","n","t">>
ChildName  == <<"c","h","i","l","d">>
NameKey    == <<"n","a","m","e">>

\* {"name": "parent", "type": "object",
\*  "properties": {"child": {"$ref": "child.json"}}}
ParentSchema ==
    Dict(<< <<"name", Str(ParentName)>>,
            ObjectType,
            <<"properties",
              Dict(<< <<"child",
                        Dict(<< <<"$ref", Str(ChildName \o <<".","j","s","o","n">>)>> >>)>> >>)>> >>)

\* {"name": <name>, "type": "object", "required": ["name"],
\*  "properties": {"name": {"type": "string"}}}
ChildNamed(name) ==
    Dict(<< <<"name", Str(name)>>,
            ObjectType,
            <<"required", List(<<Str(NameKey)>>)>>,
            <<"properties", Dict(<< <<"name", Dict(<<StringType>>)>> >>)>> >>)

ChildSchema == ChildNamed(ChildName)

\* The same child under the identifier "Child", which "child.json" does
\* not name
CapitalChildSchema == ChildNamed(<<"C","h","i","l","d">>)

ScenarioSchemas == {ParentSchema, ChildSchema, CapitalChildSchema}

ScenarioRegistry == << <<"P","a","r","e","n","t">>, <<"C","h","i","l","d">> >>

ScenarioFilenames ==
    { <<>>, ParentName \o <<".","j","s","o","n">>, ChildName \o <<".","j","s","o","n">> }

\* {"child": {"name": "x"}}
GoodDocument ==
    Dict(<< <<"child", Dict(<< <<"name", Str(<<"x">>)>> >>)>> >>)

\* {"child": {}}
NamelessDocument == Dict(<< <<"child", Dict(<<>>)>> >>)

\* {"child": "x"}
FlatDocument == Dict(<< <<"child", Str(<<"x">>)>> >>)

\* {"child": {"name": "x"}, "other": "y"}
ExtraDocument ==
    Dict(<< <<"child", Dict(<< <<"name", Str(<<"x">>)>> >>)>>,
            <<"other", Str(<<"y">>)>> >>)

ScenarioDocuments == {GoodDocument, NamelessDocument, FlatDocument, ExtraDocument}

ScenarioDocumentName == <<"d",".","j","s","o","n">>

\* The characters of a document key
KeyText(k) ==
    CASE k = "child" -> ChildName
      [] k = "name"  -> NameKey
      [] k = "other" -> <<"o","t","h","e","r">>

RECURSIVE Flatten(_)
Flatten(seqs) == IF seqs = <<>> THEN <<>> ELSE seqs[1] \o Flatten(Tail(seqs))

\* The errors of a document against a schema, each with its location
RECURSIVE Violations(_, _, _)
Violations(doc, schema, loc) ==
    IF ~IsDict(schema) \/ ~HasKey(schema, "type") THEN <<>>
    ELSE IF Get(schema, "type") = ObjectType[2] THEN
        IF ~IsDict(doc)
        THEN << [loc |-> loc, msg |-> "Input should be an object"] >>
        ELSE
            LET properties == IF HasKey(schema, "properties")
                              THEN Get(schema, "properties") ELSE Dict(<<>>)
                required   == IF HasKey(schema, "required")
                              THEN Get(schema, "required").xs ELSE <<>>
                missing    == SelectSeq(required,
                                  LAMBDA r : \A k \in Keys(doc) : KeyText(k) # r.s)
                extra      == SelectSeq(doc.kv, LAMBDA e : ~HasKey(properties, e[1]))
            IN  [i \in 1..Len(missing) |->
                    [loc |-> Append(loc, missing[i]), msg |-> "Field required"]]
                \o Flatten([i \in 1..Len(properties.kv) |->
                    LET k == properties.kv[i][1] IN
                    IF HasKey(doc, k)
                    THEN Violations(Get(doc, k), properties.kv[i][2],
                                    Append(loc, Str(KeyText(k))))
                    ELSE <<>>])
                \o [i \in 1..Len(extra) |->
                    [loc |-> Append(loc, Str(KeyText(extra[i][1]))),
                     msg |-> "Extra inputs are not permitted"]]
    ELSE IF Get(schema, "type") = StringType[2] THEN
        IF IsStr(doc) THEN <<>>
        ELSE << [loc |-> loc, msg |-> "Input should be a valid string"] >>
    ELSE <<>>

\* The one model class built from the cleaned schema
Conforming ==
    { ModelClass(CleanedSchema,
          [d \in ScenarioDocuments |->
              IF Violations(d, CleanedSchema, <<>>) = <<>> THEN Valid
              ELSE Invalid(Violations(d, CleanedSchema, <<>>))]) }

InitScenario ==
    /\ pc = "bulk_validate"
    /\ HSDS_MODELS = ScenarioRegistry
    /\ json_schemas \in SeqsOf(ScenarioSchemas, 0, MaxSchemas)
    /\ filename \in ScenarioFilenames
    /\ json_data_list \in SeqsOf({ScenarioDocumentName} \X ScenarioDocuments, 0, MaxDocs)
    /\ picked = NotPicked
    /\ main_schema = None
    /\ resolved = NotResolved
    /\ cleaned_schema = None
    /\ pydantic_model = None
    /\ results = <<>>
    /\ raised = NoError
    /\ fs = EmptyFs
    /\ report = NoReport
    /\ DirectCall

GenerateConforming == Generate(Conforming)

NextScenario ==
    \/ BulkValidate
    \/ DetectFail
    \/ PickModel
    \/ MatchSchema
    \/ GenerateConforming
    \/ ValidateDocument
    \/ Return
    \/ Report
    \/ CliReport
    \/ ReportFailure
    \/ CliReportFailure

SpecScenario == InitScenario /\ [][NextScenario]_vars

\* The batch of the scenario: the parent and the child, in either order,
\* the parent picked as the main schema
ParentAndChild ==
    /\ json_schemas \in {<<ParentSchema, ChildSchema>>, <<ChildSchema, ParentSchema>>}
    /\ main_schema = ParentSchema

----------------------------------------------------------------------------
(* The shape of the error entries, checked under Spec *)

\* C21: every error entry of every failed outcome has a column and an
\* error, whether the document broke the schema or the validator raised
\* something else; a successful outcome has no error entries.
C21_EveryEntryHasColumnAndError ==
    \A i \in 1..Len(results) :
        IF results[i].success
        THEN "errors" \notin DOMAIN results[i]
        ELSE \A j \in 1..Len(results[i].errors) :
                 DOMAIN results[i].errors[j] = {"column", "error"}

----------------------------------------------------------------------------
(* What the callers make of a failure of bulk_validate, checked under Spec *)

\* C22: a failure raised by bulk_validate is caught by the API endpoint and
\* by the CLI and becomes a top-level failure response, success false with
\* one error message; it never leaves the caller uncaught, and the response
\* has no summary and no per-file list.
C22_FailureIsCaughtAndReportedOnce ==
    /\ pc # "uncaught"
    /\ (pc = "reported" /\ raised # NoError) =>
           /\ report \in {FailureReport(raised), CliFailureReport(raised)}
           /\ DOMAIN report = {"kind", "success", "errors"}
           /\ ~report.success
           /\ Len(report.errors) = 1

\* C22 witness: model generation failed on an unresolved reference and the
\* CLI reported it
C22_Witness ==
    /\ pc = "reported"
    /\ raised.what = "Model generation failed"
    /\ resolved.st = "raise"
    /\ report = CliFailureReport(raised)

----------------------------------------------------------------------------
(* The set of references being resolved, checked under SpecResolve *)

\* The diamond with every reference inlined
DiamondResolved ==
    Schema(Str(<<"A">>),
           Dict(<< <<"a", Schema(Str(<<"B">>), LeafSchema(Str(<<"D">>)))>>,
                   <<"b", Schema(Str(<<"C">>), LeafSchema(Str(<<"D">>)))>> >>))

\* C23: the set of references being resolved is restored when a "$ref" node
\* has been resolved: after a normal return it is what it was on entry, so a
\* document referenced from two sibling places, as D is in the diamond, is
\* inlined at both and the placeholder stands at neither.
C23_SetRestoredSoSiblingsInlined ==
    (pc = "resolved" /\ resolved.st = "ok") =>
        /\ resolved.visited = {}
        /\ \A i \in 1..Len(Log) :
               (Log[i].did \in {"inlined", "placeholder"}
                   /\ Log[i].ref \notin PathRefs(Log[i]))
               => Log[i].did = "inlined"
        /\ (json_schemas = Diamond /\ main_schema = Diamond[1]) =>
               resolved.val = DiamondResolved

\* C23 witness: the diamond is resolved, D inlined once under B and once
\* under C
C23_Witness ==
    /\ pc = "resolved"
    /\ resolved.st = "ok"
    /\ json_schemas = Diamond
    /\ \E i, j \in 1..Len(Log) :
          /\ i < j
          /\ Log[i].ref = <<"D">> /\ Log[i].did = "inlined"
          /\ Log[j].ref = <<"D">> /\ Log[j].did = "inlined"
          /\ PathRefs(Log[i]) = {<<"B">>}
          /\ PathRefs(Log[j]) = {<<"C">>}

----------------------------------------------------------------------------
(* The order of the steps of bulk_validate, checked under Spec *)

\* C24: the main schema is selected once and the model generated once, both
\* before the first document is validated; the selection is made from the
\* batch-level file name, and every document is validated against that one
\* model, whatever its own file name.
C24_OneModelBuiltBeforeValidation ==
    /\ [](results # <<>> =>
            /\ main_schema # None
            /\ pydantic_model # None
            /\ pydantic_model.schema
                   = clean_hsds_schema(resolve_external_refs(main_schema, json_schemas).val))
    /\ [][/\ picked' # picked =>
               /\ picked = NotPicked /\ results = <<>>
               /\ picked' = pick_model_to_validate(filename, HSDS_MODELS)
          /\ main_schema' # main_schema =>
               /\ main_schema = None /\ results = <<>>
               /\ main_schema' = DetectAfterPick(json_schemas, filename, picked).schema
          /\ pydantic_model' # pydantic_model =>
               /\ pydantic_model = None /\ results = <<>>
          /\ results' # results =>
               /\ main_schema' = main_schema
               /\ pydantic_model' = pydantic_model
               /\ LET input == json_data_list[Len(results) + 1]
                  IN  results' = Append(results,
                                        validate(input[2], input[1], pydantic_model))
         ]_vars

\* C24 witness: two documents with file names of their own, neither the
\* batch-level one, were validated against the model of the main schema
C24_Witness ==
    /\ pc = "returned"
    /\ Len(results) >= 2
    /\ json_data_list[1][1] # json_data_list[2][1]
    /\ filename = json_data_list[Len(json_data_list)][1]
    /\ filename \notin PipelineFilenames
    /\ main_schema # None
    /\ pydantic_model # None

----------------------------------------------------------------------------
(* The temporary schema file of generate_models, checked under Spec *)

\* C27: once generate_models has returned the model or raised, no temporary
\* schema file it created is left, the failure of the code-generation command
\* included.
C27_NoTemporaryFileLeft ==
    pc \in {"validate", "returned", "raised", "reported"} => fs.temp = 0

----------------------------------------------------------------------------
(* clean_hsds_schema applied twice, checked under SpecClean *)

\* C28: clean_hsds_schema is idempotent and pure: applied to its own output
\* it returns that output, and the tree it is given is the same after the
\* call as before.
C28_CleanIsIdempotentAndPure ==
    [][/\ pc = "clean" => main_schema' = main_schema
       /\ pc = "cleaned" => cleaned_schema' = cleaned_schema
      ]_vars

\* C28 witness: the first application removed something and the second was
\* made
C28_Witness ==
    /\ pc = "cleaned again"
    /\ cleaned_schema # main_schema

----------------------------------------------------------------------------
(* Specification SpecLoad: the API endpoint and the CLI, from the schema    *)
(* and input files they are given to their response.  A file is its name,   *)
(* what loading it comes to (kind) and, when it loads, its content:         *)
(*   "system"      skipped as a system file                                 *)
(*   "not json"    its name does not end in .json                           *)
(*   "invalid"     validate_json_format answers (False, message)            *)
(*   "unloadable"  opening or json.load raises                              *)
(*   "ok"          loaded                                                   *)

File(name, kind, data) == [name |-> name, kind |-> kind, data |-> data]

SystemFile     == File(<<".","D","S","_","S","t","o","r","e">>, "system", None)
NotJsonFile    == File(<<"n",".","t","x","t">>, "not json", None)
InvalidFile    == File(<<"i",".","j","s","o","n">>, "invalid", None)
UnloadableFile == File(<<"u",".","j","s","o","n">>, "unloadable", None)

SchemaFiles ==
    { SystemFile, NotJsonFile, InvalidFile, UnloadableFile,
      File(<<"a",".","j","s","o","n">>, "ok", LeafSchema(Str(<<"A">>))) }

InputFiles ==
    { SystemFile, NotJsonFile, InvalidFile, UnloadableFile,
      File(<<"x",".","j","s","o","n">>, "ok", Doc1),
      File(<<"y",".","j","s","o","n">>, "ok", Doc2) }

\* The longest list of files in an archive or directory
MaxFiles == MaxSchemas

\* The name of the input archive (API) or directory (CLI)
InputNames(who) ==
    IF who = "api" THEN { <<"a",".","z","i","p">> } ELSE { <<"a">>, <<>> }

\* The entry of the error list for a file that did not load
FileError(who, f, is_schema) ==
    IF who = "api"
    THEN IF f.kind = "unloadable"
         THEN [filepath |-> f.name, error_type |-> "UNKNOWN_ERROR", message |-> "str(e)"]
         ELSE [filepath |-> f.name, error_type |-> "INVALID_JSON"]
    ELSE [filepath |-> f.name,
          error_type |-> IF f.kind = "unloadable" THEN "FILE_ACCESS_ERROR"
                         ELSE "INVALID_JSON",
          message |-> IF f.kind = "not json" THEN "Not a JSON file"
                      ELSE IF f.kind = "unloadable"
                      THEN (IF is_schema THEN "Error loading schema" ELSE "Error loading file")
                      ELSE (IF is_schema THEN "Invalid JSON schema" ELSE "Invalid JSON")]

\* Mutant: a file that does not load is left out and no error is kept for it
LoadFiles_BestEffort(files, who, is_schema) ==
    LET good == SelectSeq(files, LAMBDA f : f.kind = "ok")
    IN  [data   |-> [i \in 1..Len(good) |->
                        IF is_schema THEN good[i].data
                        ELSE <<good[i].name, good[i].data>>],
         errors |-> <<>>]

\* The loop over the files of an archive or directory: what was loaded and
\* the errors, both in the order of the files
RECURSIVE LoadFiles(_, _, _)
LoadFiles(files, who, is_schema) ==
    IF files = <<>> THEN [data |-> <<>>, errors |-> <<>>]
    ELSE
    LET f    == files[1]
        rest == LoadFiles(Tail(files), who, is_schema)
    IN  IF f.kind = "system" THEN rest
        ELSE IF f.kind = "ok"
        THEN [rest EXCEPT !.data =
                 <<IF is_schema THEN f.data ELSE <<f.name, f.data>>>> \o @]
        ELSE [rest EXCEPT !.errors = <<FileError(who, f, is_schema)>> \o @]

\* {"success": False, "errors": errors}
LoadFailure(errors) == [kind |-> "failure", success |-> FALSE, errors |-> errors]

\* click.BadParameter raised by a callback: the command ends with a usage
\* error and main is not entered
BadParameter(message) == [kind |-> "usage error", message |-> message]

InitLoad ==
    /\ caller \in {"api", "cli"}
    /\ pc = IF caller = "cli" THEN "arguments" ELSE "schemas"
    /\ \E name \in InputNames(caller), files \in SeqsOf(InputFiles, 0, MaxFiles) :
           input_dir = [name |-> name, files |-> files]
    /\ \E files \in SeqsOf(SchemaFiles, 0, MaxFiles) :
           schema_dir = [name |-> <<"s">>, files |-> files]
    /\ HSDS_MODELS = PipelineRegistry
    /\ json_schemas = <<>>
    /\ filename = <<>>
    /\ json_data_list = <<>>
    /\ picked = NotPicked
    /\ main_schema = None
    /\ resolved = NotResolved
    /\ cleaned_schema = None
    /\ pydantic_model = None
    /\ results = <<>>
    /\ raised = NoError
    /\ fs = EmptyFs
    /\ report = NoReport

\* The callbacks of the CLI's two arguments: validate_directory, then
\* validate_schema_directory
CliArguments ==
    /\ pc = "arguments"
    /\ IF input_dir.files = <<>>
       THEN /\ report' = BadParameter("Directory is empty")
            /\ pc' = "reported"
       ELSE IF schema_dir.files = <<>>
       THEN /\ report' = BadParameter("Directory is empty")
            /\ pc' = "reported"
       ELSE IF \A i \in 1..Len(schema_dir.files) :
                   schema_dir.files[i].kind \in {"system", "not json"}
       THEN /\ report' = BadParameter("No JSON schema files found in directory")
            /\ pc' = "reported"
       ELSE /\ report' = report
            /\ pc' = "schemas"
    /\ UNCHANGED <<caller_vars, HSDS_MODELS, json_schemas, filename, json_data_list,
                   picked, main_schema, resolved, cleaned_schema, pydantic_model,
                   results, raised, fs>>

\* The schemas are loaded
LoadSchemas ==
    /\ pc = "schemas"
    /\ LET loaded == LoadFiles(schema_dir.files, caller, TRUE) IN
       IF caller = "api" /\ schema_dir.files = <<>>
       THEN /\ report' = LoadFailure(<< [filepath |-> schema_dir.name,
                                         error_type |-> "FILE_EMPTY"] >>)
            /\ pc' = "reported"
            /\ UNCHANGED json_schemas
       ELSE IF loaded.errors # <<>>
       THEN /\ report' = LoadFailure(loaded.errors)
            /\ pc' = "reported"
            /\ UNCHANGED json_schemas
       ELSE IF loaded.data = <<>>
       THEN /\ report' = LoadFailure(
                  IF caller = "api"
                  THEN << [filepath |-> schema_dir.name, error_type |-> "FILE_EMPTY"] >>
                  ELSE << [error |-> "No valid JSON schemas found in schema directory"] >>)
            /\ pc' = "reported"
            /\ UNCHANGED json_schemas
       ELSE /\ json_schemas' = loaded.data
            /\ pc' = "inputs"
            /\ UNCHANGED report
    /\ UNCHANGED <<caller_vars, HSDS_MODELS, filename, json_data_list,
                   picked, main_schema, resolved, cleaned_schema, pydantic_model,
                   results, raised, fs>>

\* The input documents are loaded and bulk_validate is called
LoadInputs ==
    /\ pc = "inputs"
    /\ LET loaded == LoadFiles(input_dir.files, caller, FALSE) IN
       IF caller = "api" /\ input_dir.files = <<>>
       THEN /\ report' = LoadFailure(<< [filepath |-> input_dir.name,
                                         error_type |-> "FILE_EMPTY"] >>)
            /\ pc' = "reported"
            /\ UNCHANGED <<json_data_list, filename>>
       ELSE IF loaded.errors # <<>>
       THEN /\ report' = LoadFailure(loaded.errors)
            /\ pc' = "reported"
            /\ UNCHANGED <<json_data_list, filename>>
       ELSE IF caller = "cli" /\ loaded.data = <<>>
       THEN /\ report' = LoadFailure(
                  << [error |-> "No valid JSON files found in input directory"] >>)
            /\ pc' = "reported"
            /\ UNCHANGED <<json_data_list, filename>>
       ELSE /\ json_data_list' = loaded.data
            /\ filename' = input_dir.name
            /\ pc' = "bulk_validate"
            /\ UNCHANGED report
    /\ UNCHANGED <<caller_vars, HSDS_MODELS, json_schemas,
                   picked, main_schema, resolved, cleaned_schema, pydantic_model,
                   results, raised, fs>>

\* The caller's response to what bulk_validate returned
Respond ==
    \/ caller = "api" /\ Report
    \/ caller = "cli" /\ CliReport

\* The caller's response to what bulk_validate raised
RespondFailure ==
    \/ caller = "api" /\ ReportFailure
    \/ caller = "cli" /\ CliReportFailure

NextLoad ==
    \/ CliArguments
    \/ LoadSchemas
    \/ LoadInputs
    \/ BulkValidate
    \/ DetectFail
    \/ PickModel
    \/ MatchSchema
    \/ GenerateModels
    \/ ValidateDocument
    \/ Return
    \/ Respond
    \/ RespondFailure

SpecLoad == InitLoad /\ [][NextLoad]_vars

----------------------------------------------------------------------------
(* Files that do not load, checked under SpecLoad *)

BadKinds == {"not json", "invalid", "unloadable"}

BadFiles(files) == SelectSeq(files, LAMBDA f : f.kind \in BadKinds)

\* One entry for each file that did not load, in the order of the files
FileErrors(files, is_schema) ==
    [i \in 1..Len(BadFiles(files)) |-> FileError(caller, BadFiles(files)[i], is_schema)]

\* Some file, system files aside, does not load
SomeFileBad ==
    BadFiles(schema_dir.files) # <<>> \/ BadFiles(input_dir.files) # <<>>

\* bulk_validate has not been called
NotCalled ==
    /\ pc \in {"arguments", "schemas", "inputs", "reported"}
    /\ json_data_list = <<>>
    /\ picked = NotPicked
    /\ pydantic_model = None
    /\ results = <<>>
    /\ raised = NoError

\* C25 as claimed: when a file that is no system file does not load, the
\* response is a top-level failure that lists the file-level errors.
C25_FailureListsFileErrors ==
    (SomeFileBad /\ pc = "reported") =>
        /\ report.kind = "failure"
        /\ ~report.success
        /\ report.errors \in {FileErrors(schema_dir.files, TRUE),
                              FileErrors(input_dir.files, FALSE)}

\* C25: when a schema file or an input file that is no system file does not
\* load, bulk_validate is never called and no document is validated, the
\* well-formed ones included; the response is never a summary.  It is a
\* top-level failure that lists the errors of the schema files if one of them
\* did not load, and those of the input files if all schemas loaded; the
\* caller may end before that, the CLI with a usage error (an empty
\* directory, no .json file among the schemas), the API with FILE_EMPTY (an
\* empty archive).  The inputs are read only once every schema file has
\* loaded.
C25_BadFileStopsTheBatch ==
    /\ SomeFileBad =>
          /\ NotCalled
          /\ pc = "reported" =>
                /\ report.kind \in {"failure", "usage error"}
                /\ report.kind = "failure" =>
                      /\ ~report.success
                      /\ DOMAIN report = {"kind", "success", "errors"}
                      /\ BadFiles(schema_dir.files) # <<>> =>
                             report.errors = FileErrors(schema_dir.files, TRUE)
                      /\ (BadFiles(schema_dir.files) = <<>> /\ json_schemas # <<>>) =>
                             report.errors = FileErrors(input_dir.files, FALSE)
                /\ report.kind = "usage error" => caller = "cli"
    /\ (pc = "inputs" \/ json_data_list # <<>> \/ filename # <<>>) =>
          /\ BadFiles(schema_dir.files) = <<>>
          /\ json_schemas # <<>>
          /\ Len(json_schemas)
                 = Len(SelectSeq(schema_dir.files, LAMBDA f : f.kind = "ok"))

\* C25 witness: the schemas loaded, one input file is well-formed and one is
\* not, and the response lists the one error
C25_Witness ==
    /\ pc = "reported"
    /\ json_schemas # <<>>
    /\ \E i \in 1..Len(input_dir.files) : input_dir.files[i].kind = "ok"
    /\ Len(BadFiles(input_dir.files)) = 1
    /\ report = LoadFailure(FileErrors(input_dir.files, FALSE))
    /\ NotCalled

----------------------------------------------------------------------------
(* A batch with no document, checked under SpecLoad *)

\* C26: when the input holds no document to validate (system files only),
\* the response is never success true: the API endpoint and the CLI both
\* answer with a failure (for the CLI, a usage error counts as one).
C26_NoDocumentIsFailure ==
    (/\ pc = "reported"
     /\ \A i \in 1..Len(input_dir.files) : input_dir.files[i].kind = "system")
    => /\ report.kind \in {"failure", "usage error"}
       /\ report.kind = "failure" => ~report.success

====
